---- MODULE Spec2Model ----
(***************************************************************************)
(* The weak default trace hook of src/src/weak_on_trace.c:                 *)
(*                                                                         *)
(*   __attribute__((weak))                                                 *)
(*   void _on_trace(unsigned int, const unsigned char*, size_t) {}         *)
(*                                                                         *)
(* The model is a process whose threads call the hook (also reentrantly,   *)
(* from a handler that interrupts a call in progress), the final link that *)
(* decides which definition of the symbol the calls reach, and the         *)
(* process state a hook body could touch.                                  *)
(***************************************************************************)
EXTENDS Integers, Sequences, FiniteSets

(* ------------------------------ bounds --------------------------------- *)

\* Number of threads calling the hook.
NumThreads == 2
\* Deepest nesting of hook calls on one thread (a handler interrupting a call).
MaxDepth == 2
\* Calls made in one run.
MaxCalls == 2
\* Bytes of caller memory (the buffer the calls pass).
MemSize == 2

(* ------------------------- types of the signature ---------------------- *)

\* Width of the first parameter's type, unsigned int.
UINT_BITS == 32

\* A 32-bit value is written as its two 16-bit halves <<high, low>>, the
\* value being high * 2^16 + low.
U32 == (0 .. 2^16 - 1) \X (0 .. 2^16 - 1)
UINT_MAX == <<2^(UINT_BITS - 16) - 1, 2^16 - 1>>

\* Conversion of an argument to the parameter type unsigned int: the value
\* modulo 2^UINT_BITS.
ToUnsignedInt(v) == <<v[1] % (2^(UINT_BITS - 16)), v[2] % (2^16)>>

NULL == 0
\* Address of the caller's buffer; it spans BufAddr .. BufAddr + MemSize - 1.
BufAddr == NULL + 1
Addrs == BufAddr .. (BufAddr + MemSize - 1)

Threads == 1 .. NumThreads

\* Event identifiers the callers pass: the two the scenarios use and the
\* largest 32-bit value.
EventIds == {<<0, 1>>, <<0, 7>>, <<65535, 65535>>}

\* (data, length) pairs the callers pass: nothing, the whole buffer, and a
\* null reference with a non-zero length (which no validation would accept).
BufArgs == {<<NULL, 0>>, <<BufAddr, MemSize>>, <<NULL, MemSize>>}

\* data may be null when length is zero, and otherwise points to at least
\* length readable bytes.
ValidArgs(data, length) ==
    IF data = NULL THEN length = 0
    ELSE data \in Addrs /\ data + length - 1 <= BufAddr + MemSize - 1

\* Contents the caller stores in its buffer: "abab.." and "baba..".
Messages == {[a \in Addrs |-> 97 + ((a + k) % 2)] : k \in {0, 1}}
MsgAB == [a \in Addrs |-> 97 + ((a + 1) % 2)]

(* ------------------------------ linking -------------------------------- *)

\* The linkage of the definition without the attribute.
DefaultLinkageStrong == "strong"

\* The linkage the attribute gives the definition in this file.
DefaultLinkage == "weak"

\* The definition this file contributes to a link.
WeakDefault == [sym |-> "_on_trace", linkage |-> DefaultLinkage, impl |-> "default"]

\* A strong definition of the same symbol supplied by a tracing subsystem.
StrongHook == [sym |-> "_on_trace", linkage |-> "strong", impl |-> "strong"]

\* What the linker binds the symbol to, given the definitions in the link.
Resolve(defs) ==
    LET strong == {d \in defs : d.linkage = "strong"}
        weak   == {d \in defs : d.linkage = "weak"}
    IN  IF Cardinality(strong) > 1 THEN "duplicate_symbol"
        ELSE IF strong # {} THEN (CHOOSE d \in strong : TRUE).impl
        ELSE IF weak # {} THEN (CHOOSE d \in weak : TRUE).impl
        ELSE "undefined_symbol"

(* --------------------------- process state ----------------------------- *)

VARIABLES
    binary,   \* the definitions of _on_trace in the final link
    world,    \* what a hook body could observe or change
    counter,  \* the strong hook's counter
    stack,    \* per thread, its hook calls in progress, innermost last
    ncalls,   \* calls made so far
    shadow    \* the world of a second run of the same caller, making other calls

vars == <<binary, world, counter, stack, ncalls, shadow>>

InitWorld ==
    [ mem      |-> MsgAB,   \* caller memory
      out      |-> <<>>,    \* output streams
      loads    |-> {},      \* addresses the hook has read
      stores   |-> {},      \* addresses the hook has written
      retained |-> {},      \* references the hook keeps in static storage
      freed    |-> {},      \* addresses the hook has released
      lock     |-> FALSE,   \* a lock held on behalf of the hook
      err      |-> 0,       \* error state (errno-like)
      fault    |-> FALSE ]  \* the process has crashed

(* --------------- hook bodies that are NOT the source's ------------------ *)
(* Each is the empty body changed the way a faulty default could be; the   *)
(* properties below are checked to tell the source's body from them.       *)

\* A default that reports the event on an output stream.
_on_trace_logs(w, event_id, data, length) ==
    [w |-> [w EXCEPT !.out = Append(@, event_id)], ret |-> TRUE]

\* A default that clears the first byte of a non-empty buffer.
_on_trace_scribbles(w, event_id, data, length) ==
    [w |-> IF data \in Addrs /\ length > 0
           THEN [w EXCEPT !.mem[data] = 0, !.stores = @ \cup {data}]
           ELSE w,
     ret |-> TRUE]

\* A default that reads the first byte of the buffer.
_on_trace_deref(w, event_id, data, length) ==
    [w |-> [w EXCEPT !.loads = @ \cup {data}, !.fault = (data \notin Addrs)],
     ret |-> TRUE]

\* A default that checks its arguments and reports an error.
_on_trace_validates(w, event_id, data, length) ==
    [w |-> IF ValidArgs(data, length) THEN w ELSE [w EXCEPT !.err = 22],
     ret |-> TRUE]

\* A default that remembers the last buffer in a static variable.
_on_trace_keeps(w, event_id, data, length) ==
    [w |-> [w EXCEPT !.retained = @ \cup {data}], ret |-> TRUE]

\* A default that counts its calls in a static variable, unsynchronized.
_on_trace_static(w, event_id, data, length) ==
    LET static == BufAddr + MemSize
    IN  [w |-> [w EXCEPT !.loads = @ \cup {static}, !.stores = @ \cup {static}],
         ret |-> TRUE]

\* A default that takes a non-recursive lock and waits while it is held.
_on_trace_locks(w, event_id, data, length) ==
    IF w.lock THEN [w |-> w, ret |-> FALSE]
    ELSE [w |-> [w EXCEPT !.lock = TRUE], ret |-> TRUE]

\* A default that rejects event identifiers above INT_MAX.
_on_trace_rejects(w, event_id, data, length) ==
    [w |-> IF event_id[1] >= 2^15 THEN [w EXCEPT !.err = 22] ELSE w, ret |-> TRUE]

(* ------------------------------ the hook ------------------------------- *)

\* void _on_trace(unsigned int, const unsigned char*, size_t) {}
\* w is the state before the call; the result is the state after it and
\* whether the call returns (ret = FALSE: it waits in state w).
_on_trace(w, event_id, data, length) == [w |-> w, ret |-> TRUE]

\* The strong hook of the second scenario: it records the event in a counter.
on_trace_strong(c, event_id, data, length) == c + 1

(* ------------------------------ actions -------------------------------- *)

Top(t) == stack[t][Len(stack[t])]

SetTop(t, f) == [stack EXCEPT ![t] = [@ EXCEPT ![Len(@)] = f]]

Init ==
    /\ binary \in {{WeakDefault}, {WeakDefault, StrongHook}}
    /\ world = InitWorld
    /\ counter = 0
    /\ stack = [t \in Threads |-> <<>>]
    /\ ncalls = 0
    /\ shadow = InitWorld

\* Thread t calls the hook; with a call already in progress on t this is a
\* handler interrupting it and entering the hook again.
Call(t, e, d, l) ==
    /\ ~world.fault
    /\ ncalls < MaxCalls
    /\ Len(stack[t]) < MaxDepth
    /\ Resolve(binary) \in {"default", "strong"}
    /\ stack' = [stack EXCEPT ![t] = Append(@,
                    [ tag      |-> e,
                      event_id |-> ToUnsignedInt(e),
                      data     |-> d,
                      length   |-> l,
                      hook     |-> Resolve(binary),
                      pc       |-> "entry" ])]
    /\ ncalls' = ncalls + 1
    /\ UNCHANGED <<binary, world, counter, shadow>>

\* The innermost call of t runs the weak default and returns to its caller.
\* The second run makes a call here too, with arguments of its own, or no
\* call at all.
ExecDefault(t) ==
    /\ ~world.fault
    /\ stack[t] # <<>>
    /\ Top(t).pc = "entry"
    /\ Top(t).hook = "default"
    /\ LET r == _on_trace(world, Top(t).event_id, Top(t).data, Top(t).length)
       IN  /\ r.ret
           /\ world' = r.w
    /\ \/ \E e \in EventIds, b \in BufArgs :
             shadow' = _on_trace(shadow, ToUnsignedInt(e), b[1], b[2]).w
       \/ shadow' = shadow
    /\ stack' = SetTop(t, [Top(t) EXCEPT !.pc = "returned"])
    /\ UNCHANGED <<binary, counter, ncalls>>

\* The innermost call of t runs the strong hook and returns to its caller.
ExecStrong(t) ==
    /\ ~world.fault
    /\ stack[t] # <<>>
    /\ Top(t).pc = "entry"
    /\ Top(t).hook = "strong"
    /\ counter' = on_trace_strong(counter, Top(t).event_id, Top(t).data, Top(t).length)
    /\ stack' = SetTop(t, [Top(t) EXCEPT !.pc = "returned"])
    /\ UNCHANGED <<binary, world, ncalls, shadow>>

\* The caller of the innermost call of t carries on after the call.
Resume(t) ==
    /\ ~world.fault
    /\ stack[t] # <<>>
    /\ Top(t).pc = "returned"
    /\ stack' = [stack EXCEPT ![t] = SubSeq(@, 1, Len(@) - 1)]
    /\ UNCHANGED <<binary, world, counter, ncalls, shadow>>

\* The caller fills its buffer with other contents (in both runs).
CallerWrite(m) ==
    /\ ~world.fault
    /\ m # world.mem
    /\ world' = [world EXCEPT !.mem = m]
    /\ shadow' = [shadow EXCEPT !.mem = m]
    /\ UNCHANGED <<binary, counter, stack, ncalls>>

Next ==
    \/ \E t \in Threads, e \in EventIds, b \in BufArgs : Call(t, e, b[1], b[2])
    \/ \E t \in Threads : ExecDefault(t)
    \/ \E t \in Threads : ExecStrong(t)
    \/ \E t \in Threads : Resume(t)
    \/ \E m \in Messages : CallerWrite(m)

Spec == Init /\ [][Next]_vars

\* A call in progress is not held up for ever: the hook body and the return
\* to the caller are steps the processor takes.
FairSpec ==
    /\ Spec
    /\ \A t \in Threads : WF_vars(ExecDefault(t)) /\ WF_vars(ExecStrong(t)) /\ WF_vars(Resume(t))

TypeOK ==
    /\ binary \subseteq {WeakDefault, StrongHook}
    /\ counter \in 0 .. MaxCalls
    /\ ncalls \in 0 .. MaxCalls
    /\ \A t \in Threads : Len(stack[t]) <= MaxDepth

(* ----------------------------- properties ------------------------------ *)

\* The hook calls in progress: <<thread, depth>> of each.
FramePositions == {p \in Threads \X (1 .. MaxDepth) : p[2] <= Len(stack[p[1]])}

FrameAt(p) == stack[p[1]][p[2]]

\* Calls whose hook body has run.
Completed == ncalls - Cardinality({p \in FramePositions : FrameAt(p).pc = "entry"})

\* A call of the weak default that has returned to its caller.
ReturnedDefault(f) == f.hook = "default" /\ f.pc = "returned"

\* C1: a call of the default hook with a valid buffer/length pair, for any
\* event_id and any buffer contents, leaves every piece of observable state
\* (caller memory, output, everything else of the process) as it was.
C1_NoObservableEffect ==
    [][\A t \in Threads :
          (ExecDefault(t) /\ ValidArgs(Top(t).data, Top(t).length)) => world' = world]_vars

\* A default-hook call passing the whole (non-empty) buffer has returned.
C1_Witness ==
    \E p \in FramePositions :
        /\ ReturnedDefault(FrameAt(p))
        /\ ValidArgs(FrameAt(p).data, FrameAt(p).length)
        /\ FrameAt(p).length > 0

\* C2: linking the weak default together with a strong definition is not a
\* duplicate-symbol error, every call then runs the strong definition (the
\* counter counts every completed call, two after two calls) and the weak
\* default never runs.
C2_StrongOverrides ==
    /\ Resolve(binary) \notin {"duplicate_symbol", "undefined_symbol"}
    /\ StrongHook \in binary =>
          /\ Resolve(binary) = "strong"
          /\ \A p \in FramePositions : FrameAt(p).hook = "strong"
          /\ counter = Completed

\* With the strong hook linked, on_trace(7, null, 0) has been called a
\* second time, after an earlier call returned, and the counter reads 2.
C2_Witness ==
    /\ StrongHook \in binary
    /\ ncalls = 2
    /\ counter = 2
    /\ Cardinality(FramePositions) = 1
    /\ \E p \in FramePositions :
          /\ FrameAt(p).pc = "returned"
          /\ FrameAt(p).event_id = <<0, 7>>
          /\ FrameAt(p).data = NULL
          /\ FrameAt(p).length = 0

\* C3: with no strong definition in the binary every call resolves to the
\* weak default, and a call that has returned has neither crashed the
\* process nor produced output.
C3_DefaultInvoked ==
    StrongHook \notin binary =>
        /\ Resolve(binary) = "default"
        /\ counter = 0
        /\ \A p \in FramePositions :
              /\ FrameAt(p).hook = "default"
              /\ FrameAt(p).pc = "returned" => (~world.fault /\ world.out = <<>>)

\* In a binary with only the weak default, on_trace(1, "ab", 2) has returned.
C3_Witness ==
    /\ binary = {WeakDefault}
    /\ world.mem = MsgAB
    /\ \E p \in FramePositions :
          /\ ReturnedDefault(FrameAt(p))
          /\ FrameAt(p).event_id = <<0, 1>>
          /\ FrameAt(p).data = BufAddr
          /\ FrameAt(p).length = MemSize

\* C4: with threads calling the default hook concurrently, in every
\* interleaving the hook reads and writes no shared state, nothing crashes,
\* and the process state is the initial one but for what the caller itself
\* stored in its buffer.
C4_NoSharedState ==
    /\ world.loads = {}
    /\ world.stores = {}
    /\ ~world.fault
    /\ [world EXCEPT !.mem = InitWorld.mem] = InitWorld

\* Two threads were inside the default hook at once, with different
\* arguments, and both calls have returned.
C4_Witness ==
    \E t1, t2 \in Threads :
        /\ t1 # t2
        /\ stack[t1] # <<>> /\ stack[t2] # <<>>
        /\ ReturnedDefault(Top(t1)) /\ ReturnedDefault(Top(t2))
        /\ Top(t1).data # Top(t2).data
        /\ Top(t1).event_id # Top(t2).event_id

\* C5: the default hook has no error outcome: for every argument
\* combination, valid or not, a call that was entered can complete, and a
\* call that has returned left no error state and no crash.
C5_NoErrorOutcome ==
    /\ \A t \in Threads :
          (stack[t] # <<>> /\ Top(t).hook = "default" /\ Top(t).pc = "entry")
              => ENABLED ExecDefault(t)
    /\ (\E p \in FramePositions : ReturnedDefault(FrameAt(p)))
          => (world.err = 0 /\ ~world.fault)

\* A default-hook call with a null buffer and a non-zero length has returned.
C5_Witness ==
    \E p \in FramePositions :
        /\ ReturnedDefault(FrameAt(p))
        /\ ~ValidArgs(FrameAt(p).data, FrameAt(p).length)

\* C6: the default hook never reads through its buffer argument, whatever
\* the length, and a call with a null buffer and length 0 does not fail.
C6_NoDereference ==
    /\ world.loads = {}
    /\ \A p \in FramePositions :
          (ReturnedDefault(FrameAt(p)) /\ FrameAt(p).data = NULL)
              => (~world.fault /\ world.err = 0)

\* A default-hook call with a null buffer and length 0 has returned.
C6_Witness ==
    \E p \in FramePositions :
        /\ ReturnedDefault(FrameAt(p))
        /\ FrameAt(p).data = NULL
        /\ FrameAt(p).length = 0

\* C7: the default hook keeps no reference to the caller's buffer, releases
\* nothing and writes nothing: the buffer holds what the caller stored.
C7_BufferBorrowed ==
    /\ world.retained = {}
    /\ world.freed = {}
    /\ world.stores \cap Addrs = {}
    /\ world.mem \in Messages

\* The caller has rewritten its buffer, passed it to the default hook, and
\* the call has returned.
C7_Witness ==
    /\ world.mem # MsgAB
    /\ \E p \in FramePositions :
          /\ ReturnedDefault(FrameAt(p))
          /\ FrameAt(p).data = BufAddr
          /\ FrameAt(p).length = MemSize

\* C8: every call of the hook returns: whenever calls are in progress on a
\* thread (an outer call, and any entered from a handler that interrupted
\* it) all of them are eventually over, and the hook holds no lock at any
\* time.
C8_AlwaysReturns ==
    /\ \A t \in Threads : (stack[t] # <<>>) ~> (stack[t] = <<>>)
    /\ [](~world.lock)

\* The default hook was entered again while a call of it was in progress on
\* the same thread, and the inner call has returned before the outer one.
C8_Witness ==
    \E t \in Threads :
        /\ Len(stack[t]) = 2
        /\ stack[t][1].hook = "default" /\ stack[t][1].pc = "entry"
        /\ ReturnedDefault(stack[t][2])

\* C9: the event identifier is a 32-bit unsigned value passed unchanged,
\* and the default hook does the same whatever identifier it is given.
C9_EventIdOpaque ==
    \A p \in FramePositions :
        /\ FrameAt(p).event_id \in U32
        /\ FrameAt(p).event_id = FrameAt(p).tag
        /\ FrameAt(p).hook = "default" =>
              \A e \in EventIds :
                  _on_trace(world, e, FrameAt(p).data, FrameAt(p).length)
                      = _on_trace(world, FrameAt(p).event_id, FrameAt(p).data, FrameAt(p).length)

\* A default-hook call with the largest 32-bit identifier has returned.
C9_Witness ==
    \E p \in FramePositions :
        /\ ReturnedDefault(FrameAt(p))
        /\ FrameAt(p).event_id = UINT_MAX
        /\ FrameAt(p).tag = <<65535, 65535>>

\* C10: two runs from the same state, making default-hook calls with
\* different arguments and in different numbers, are in identical
\* observable states.
C10_ArgumentsDiscarded ==
    Resolve(binary) = "default" => world = shadow

\* The first run has made all its calls, with different arguments, and they
\* are over (the second run made calls with other arguments, or fewer calls).
C10_Witness ==
    /\ Resolve(binary) = "default"
    /\ ncalls = MaxCalls
    /\ \A t \in Threads : stack[t] # <<>> /\ ReturnedDefault(Top(t))
    /\ \E t1, t2 \in Threads : Top(t1).length # Top(t2).length

====
